---- MODULE Spec2Model ----
(***************************************************************************)
(* A model of the NoctFS FUSE adapter (src/src/main.rs, ino_cache.rs):     *)
(* the inode/parent cache, the handle table, the tree resolver and the     *)
(* kernel-operation handlers of `impl Filesystem for NoctFSFused`.         *)
(*                                                                         *)
(* The entity store (crate noctfs) and the FUSE transport (crate fuser)    *)
(* are external.  The store is modelled by what the handlers observe of    *)
(* it: `listing[b]` is what list_directory(b) returns.  A block freed by   *)
(* delete_file may be handed out again by create_file/create_directory.    *)
(***************************************************************************)
EXTENDS Integers, Sequences, FiniteSets, TLC

\* ------------------------------------------------------------ bounds
MaxGrowth == 3       \* a session records hints and allocates handles at most
                     \* MaxGrowth times in total
MaxAdds == 259       \* cache-harness runs stop after this many add calls
MaxBinds == 3        \* handle-table-harness runs stop after this many allocations
MixLen == 3          \* cache-harness runs draw their first MixLen add calls freely

\* ------------------------------------------------------------ program constants
CacheLimit == 256    \* ino_cache.rs:24
RootBlock == 1       \* main.rs:35, the reserved root identifier

\* the blocks of the store; block 1 is the root directory
Blocks == 1..3
Names == {"a", "b"}
DotNames == {".", ".."}

VARIABLES
    listing,      \* store: block -> the entities list_directory(block) yields
    dot_entries,  \* store: whether listings carry "." and ".." entries
    global_fh,    \* NoctFSFused.global_fh
    fhs_opened,   \* NoctFSFused.fhs_opened, a sequence of <<fh, ino>>
    ino_cache,    \* NoctFSFused.ino_cache.container
    reply,        \* the reply (or panic) of the last operation, with its arguments
    alive,        \* FALSE once a handler has panicked
    cache_log,    \* history: every entry ever passed to INOCache::add, in order
    fh_log        \* history: every handle id replied by open/opendir/create

vars == <<listing, dot_entries, global_fh, fhs_opened, ino_cache, reply, alive,
          cache_log, fh_log>>

\* ------------------------------------------------------------ entities
Entity(b, n, d, s) == [start_block |-> b, name |-> n, is_dir |-> d, size |-> s]

\* Option<Entity>::None
NoEntity == Entity(0, "", FALSE, 0)

\* Option<u64>::None of find_parent / get_ino, and "no handle" in a reply
NoValue == -1

is_directory(e) == e.is_dir

\* The first element of seq satisfying Test, as Iterator::find / a for loop
\* with an early return does; none when there is no such element.
FirstIndex(seq, Test(_)) ==
    LET idx == {i \in 1..Len(seq) : Test(seq[i])}
    IN  IF idx = {} THEN 0 ELSE CHOOSE i \in idx : \A j \in idx : i <= j

\* ------------------------------------------------------------ the store
\* fs.get_root_entity(), when it is Ok
RootEntity == Entity(RootBlock, "/", TRUE, 0)

\* fs.list_directory(block)
list_directory(block) ==
    IF block \in DOMAIN listing THEN listing[block] ELSE <<>>

\* the "." and ".." entries of a directory, when the store lists them
DotEntries(self, parent) ==
    IF dot_entries
    THEN <<Entity(self, ".", TRUE, 0), Entity(parent, "..", TRUE, 0)>>
    ELSE <<>>

\* every <<directory block, entity>> pair of the store, "." and ".." aside
Listed ==
    UNION {{<<d, listing[d][i]>> :
              i \in {j \in 1..Len(listing[d]) : listing[d][j].name \notin DotNames}} :
           d \in Blocks}

\* the blocks in use: the root and every listed entity's block
UsedBlocks == {RootBlock} \cup {c[2].start_block : c \in Listed}

\* the blocks create_file / create_directory may hand out
FreeBlocks == Blocks \ UsedBlocks

\* the blocks that are directories
DirBlocks == {RootBlock} \cup {c[2].start_block : c \in {x \in Listed : x[2].is_dir}}

\* fs.create_file(parent, name), the store allocating block b
create_file(parent, name, b) ==
    [listing EXCEPT ![parent] = Append(@, Entity(b, name, FALSE, 0)),
                    ![b] = <<>>]

\* fs.create_directory(parent, name), the store allocating block b
create_directory(parent, name, b) ==
    [listing EXCEPT ![parent] = Append(@, Entity(b, name, TRUE, 0)),
                    ![b] = DotEntries(b, parent)]

\* fs.delete_file(parent, entity)
delete_file(parent, entity) ==
    [listing EXCEPT ![parent] = SelectSeq(@, LAMBDA e : e # entity)]

\* fs.get_entity_by_parent_and_block(dir, ino)
get_entity_by_parent_and_block(dir, ino) ==
    LET lsr == list_directory(dir)
        k == FirstIndex(lsr, LAMBDA e : e.start_block = ino)
    IN  IF k = 0 THEN NoEntity ELSE lsr[k]

\* fs.overwrite_entity_header(dir, old, new): Some(()) iff dir lists old
header_found(dir, old) ==
    \E i \in 1..Len(list_directory(dir)) : list_directory(dir)[i] = old

overwrite_entity_header(dir, old, new) ==
    IF header_found(dir, old)
    THEN [listing EXCEPT ![dir] = [i \in 1..Len(@) |-> IF @[i] = old THEN new ELSE @[i]]]
    ELSE listing

\* ------------------------------------------------------------ INOCache
CacheEntry(ino, parent_ino) == [ino |-> ino, parent_ino |-> parent_ino]

\* INOCache::add
add(container, parent_ino, ino) ==
    LET kept == IF Len(container) > CacheLimit THEN Tail(container) ELSE container
    IN  Append(kept, CacheEntry(ino, parent_ino))

\* a find_parent that scans from the newest entry
LastIndex(seq, Test(_)) ==
    LET idx == {i \in 1..Len(seq) : Test(seq[i])}
    IN  IF idx = {} THEN 0 ELSE CHOOSE i \in idx : \A j \in idx : i >= j

find_parent_newest(container, ino) ==
    LET k == LastIndex(container, LAMBDA a : a.ino = ino)
    IN  IF k = 0 THEN NoValue ELSE container[k].parent_ino

\* INOCache::find_parent
find_parent(container, ino) ==
    LET k == FirstIndex(container, LAMBDA a : a.ino = ino)
    IN  IF k = 0 THEN NoValue ELSE container[k].parent_ino

\* ------------------------------------------------------------ handle table
\* a next_fh that advances the counter before reading it
next_fh_preincrement(counter) == [fh |-> counter + 1, global_fh |-> counter + 1]

\* a next_fh that leaves the counter where it was
next_fh_stuck(counter) == [fh |-> counter, global_fh |-> counter]

\* next_fh: the handle returned and the counter left behind
next_fh(counter) == [fh |-> counter, global_fh |-> counter + 1]

\* an allocate_fh that pushes the binding twice
allocate_fh_twice(table, fh, ino) == Append(Append(table, <<fh, ino>>), <<fh, ino>>)

\* allocate_fh
allocate_fh(table, fh, ino) == Append(table, <<fh, ino>>)

\* is_fh_allocated
is_fh_allocated(table, fh) == \E i \in 1..Len(table) : table[i][1] = fh

\* get_ino
get_ino(table, fh) ==
    IF ~is_fh_allocated(table, fh)
    THEN NoValue
    ELSE table[FirstIndex(table, LAMBDA x : x[1] = fh)][2]

\* a free_fh whose retain keeps the wrong entries
free_fh_inverted(table, fh) == SelectSeq(table, LAMBDA a : a[1] = fh)

\* a free_fh that removes nothing
free_fh_noop(table, fh) == table

\* free_fh
free_fh(table, fh) == SelectSeq(table, LAMBDA a : a[1] # fh)

\* ------------------------------------------------------------ tree resolver
RECURSIVE noct_search_by_block(_, _)
RECURSIVE search_children(_, _, _)

\* the for loop of noct_search_by_block over the rest lsr of the root listing
search_children(lsr, block, root_ok) ==
    IF lsr = <<>> THEN NoEntity
    ELSE LET i == Head(lsr)
         IN  IF i.name \in DotNames
                 THEN search_children(Tail(lsr), block, root_ok)
             ELSE IF i.start_block = block
                 THEN i
             ELSE IF is_directory(i)
                 THEN noct_search_by_block(i.start_block, root_ok)
             ELSE search_children(Tail(lsr), block, root_ok)

\* noct_search_by_block; root_ok is whether fs.get_root_entity() is Ok
noct_search_by_block(block, root_ok) ==
    IF ~root_ok THEN NoEntity
    ELSE IF block = RootBlock THEN RootEntity
    ELSE search_children(list_directory(RootEntity.start_block), block, root_ok)

\* The resolver with its invocations counted.  A result is the entity found,
\* the number of invocations of noct_search_by_block made and whether the
\* search returned; fuel is the number of invocations allowed, and a search
\* that needs more has not returned.
RECURSIVE noct_search_by_block_counted(_, _, _)
RECURSIVE search_children_counted(_, _, _, _)

SearchResult(found, calls, done) == [found |-> found, calls |-> calls, done |-> done]

\* a for loop whose recursive call passes the target on instead of the
\* directory's block
search_children_restarting(lsr, block, root_ok, fuel) ==
    IF lsr = <<>> THEN SearchResult(NoEntity, 0, TRUE)
    ELSE LET i == Head(lsr)
         IN  IF i.name \in DotNames
                 THEN search_children_counted(Tail(lsr), block, root_ok, fuel)
             ELSE IF i.start_block = block
                 THEN SearchResult(i, 0, TRUE)
             ELSE IF is_directory(i)
                 THEN noct_search_by_block_counted(block, root_ok, fuel)
             ELSE search_children_counted(Tail(lsr), block, root_ok, fuel)

\* the for loop of noct_search_by_block, counted
search_children_counted(lsr, block, root_ok, fuel) ==
    IF lsr = <<>> THEN SearchResult(NoEntity, 0, TRUE)
    ELSE LET i == Head(lsr)
         IN  IF i.name \in DotNames
                 THEN search_children_counted(Tail(lsr), block, root_ok, fuel)
             ELSE IF i.start_block = block
                 THEN SearchResult(i, 0, TRUE)
             ELSE IF is_directory(i)
                 THEN noct_search_by_block_counted(i.start_block, root_ok, fuel)
             ELSE search_children_counted(Tail(lsr), block, root_ok, fuel)

\* noct_search_by_block, counted
noct_search_by_block_counted(block, root_ok, fuel) ==
    IF fuel = 0 THEN SearchResult(NoEntity, 0, FALSE)
    ELSE IF ~root_ok THEN SearchResult(NoEntity, 1, TRUE)
    ELSE IF block = RootBlock THEN SearchResult(RootEntity, 1, TRUE)
    ELSE LET r == search_children_counted(list_directory(RootEntity.start_block),
                                          block, root_ok, fuel - 1)
         IN  [r EXCEPT !.calls = @ + 1]

\* search_by_filename
search_by_filename(directory_block, name) ==
    LET ents == list_directory(directory_block)
        k == FirstIndex(ents, LAMBDA i : i.name = name)
    IN  IF k = 0 THEN NoEntity ELSE ents[k]

\* ------------------------------------------------------------ attributes
FileType(e) == IF is_directory(e) THEN "Directory" ELSE "RegularFile"

\* entity_attrs_to_fuse_attrs (inode, size and kind; the other fields are fixed)
entity_attrs_to_fuse_attrs(e) ==
    [ino |-> e.start_block, size |-> e.size, kind |-> FileType(e)]

NoAttr == [ino |-> 0, size |-> 0, kind |-> ""]

\* ------------------------------------------------------------ replies
\* What one handler call did: its operation and arguments, the error code it
\* replied ("OK" for a value, "PANIC" when it unwound without replying), the
\* value replied, the store data call it made and whether it ran the resolver.
Reply(op, ino, name, fh, err, attr, val, entries, io, resolver) ==
    [op |-> op, ino |-> ino, name |-> name, fh |-> fh, err |-> err, attr |-> attr,
     val |-> val, entries |-> entries, io |-> io, resolver |-> resolver]

\* no request is being served: the session waits for the kernel's next one
Idle == Reply("idle", 0, "", NoValue, "OK", NoAttr, NoValue, <<>>, "none", FALSE)

\* ------------------------------------------------------------ initial state
\* The images a session may be mounted on: an empty root; a root with the file
\* "a"; a root with the directory "a" holding the file "b".
EmptyImage == [b \in Blocks |-> IF b = RootBlock THEN DotEntries(RootBlock, RootBlock) ELSE <<>>]

FileImage == [EmptyImage EXCEPT ![RootBlock] = Append(@, Entity(2, "a", FALSE, 0))]

NestedImage ==
    [EmptyImage EXCEPT ![RootBlock] = Append(@, Entity(2, "a", TRUE, 0)),
                       ![2] = Append(DotEntries(2, RootBlock), Entity(3, "b", FALSE, 0))]

InitImages == {EmptyImage, FileImage, NestedImage}

\* main(): the session state NoctFSFused is constructed with
Init ==
    /\ dot_entries \in BOOLEAN
    /\ listing \in InitImages
    /\ global_fh = 0
    /\ fhs_opened = <<>>
    /\ ino_cache = <<>>
    /\ reply = Idle
    /\ alive = TRUE
    /\ cache_log = <<>>
    /\ fh_log = <<>>

\* ------------------------------------------------------------ handler steps
\* self.ino_cache.add(parent, ino), with the history of add calls
CacheAdd(parent, ino) ==
    /\ ino_cache' = add(ino_cache, parent, ino)
    /\ cache_log' = Append(cache_log, CacheEntry(ino, parent))

\* let fh = self.next_fh(); self.allocate_fh(fh, ino), with the history of the
\* handle ids replied
OpenHandle(ino) ==
    /\ global_fh' = next_fh(global_fh).global_fh
    /\ fhs_opened' = allocate_fh(fhs_opened, next_fh(global_fh).fh, ino)
    /\ fh_log' = Append(fh_log, next_fh(global_fh).fh)

Ok(op, ino, name, fh) ==
    Reply(op, ino, name, fh, "OK", NoAttr, NoValue, <<>>, "none", FALSE)

Err(op, ino, name, fh, code) ==
    Reply(op, ino, name, fh, code, NoAttr, NoValue, <<>>, "none", FALSE)

\* ------------------------------------------------------------ handlers
lookup(parent, name) ==
    LET entity == search_by_filename(parent, name)
    IN  IF entity = NoEntity
        THEN /\ reply' = Err("lookup", parent, name, NoValue, "ENOENT")
             /\ UNCHANGED <<listing, dot_entries, global_fh, fhs_opened, ino_cache,
                            alive, cache_log, fh_log>>
        ELSE /\ /\ CacheAdd(parent, entity.start_block)
             /\ reply' = [Ok("lookup", parent, name, NoValue)
                            EXCEPT !.attr = entity_attrs_to_fuse_attrs(entity)]
             /\ UNCHANGED <<listing, dot_entries, global_fh, fhs_opened, alive, fh_log>>

\* the fixed attributes getattr replies for inode 1
RootAttr == [ino |-> 1, size |-> 4096, kind |-> "Directory"]

getattr(ino, root_ok) ==
    /\ IF ino = 1
       THEN reply' = [Ok("getattr", ino, "", NoValue) EXCEPT !.attr = RootAttr]
       ELSE LET entity == noct_search_by_block(ino, root_ok)
            IN  IF entity = NoEntity
                THEN reply' = [Err("getattr", ino, "", NoValue, "ENOENT")
                                 EXCEPT !.resolver = TRUE]
                ELSE reply' = [Ok("getattr", ino, "", NoValue)
                                 EXCEPT !.attr = entity_attrs_to_fuse_attrs(entity),
                                        !.resolver = TRUE]
    /\ UNCHANGED <<listing, dot_entries, global_fh, fhs_opened, ino_cache, alive,
                   cache_log, fh_log>>

\* setattr; size is the requested size, NoValue when none is requested
setattr(ino, size, root_ok) ==
    LET entity == noct_search_by_block(ino, root_ok)
        new_entity == IF size = NoValue THEN entity ELSE [entity EXCEPT !.size = size]
        parent == find_parent(ino_cache, ino)
    IN  /\ IF entity = NoEntity
           THEN /\ reply' = [Err("setattr", ino, "", NoValue, "ENOENT")
                               EXCEPT !.resolver = TRUE, !.val = size]
                /\ UNCHANGED listing
           ELSE /\ reply' = [Ok("setattr", ino, "", NoValue)
                               EXCEPT !.attr = entity_attrs_to_fuse_attrs(new_entity),
                                      !.resolver = TRUE, !.val = size,
                                      !.io = IF size # NoValue /\ parent # NoValue
                                             THEN "header" ELSE "none"]
                /\ listing' = IF size # NoValue /\ parent # NoValue
                              THEN overwrite_entity_header(parent, entity, new_entity)
                              ELSE listing
        /\ UNCHANGED <<dot_entries, global_fh, fhs_opened, ino_cache, alive,
                       cache_log, fh_log>>

\* mkdir; b is the block the store allocates
mkdir(parent, name, b) ==
    LET entity == Entity(b, name, TRUE, 0)
    IN  /\ parent \in DirBlocks
        /\ search_by_filename(parent, name) = NoEntity
        /\ b \in FreeBlocks
        /\ listing' = create_directory(parent, name, b)
        /\ reply' = [Ok("mkdir", parent, name, NoValue)
                       EXCEPT !.attr = entity_attrs_to_fuse_attrs(entity)]
        /\ CacheAdd(parent, entity.start_block)
        /\ UNCHANGED <<dot_entries, global_fh, fhs_opened, alive, fh_log>>

\* an unlink that also drops the hints recorded for the deleted child
unlink_invalidating(parent, name) ==
    LET entity == search_by_filename(parent, name)
    IN  /\ ~is_directory(entity)
        /\ IF entity = NoEntity
           THEN /\ reply' = Err("unlink", parent, name, NoValue, "ENOENT")
                /\ UNCHANGED <<listing, ino_cache>>
           ELSE /\ listing' = delete_file(parent, entity)
                /\ ino_cache' = SelectSeq(ino_cache, LAMBDA a : a.ino # entity.start_block)
                /\ reply' = Ok("unlink", parent, name, NoValue)
        /\ UNCHANGED <<dot_entries, global_fh, fhs_opened, alive, cache_log, fh_log>>

unlink(parent, name) ==
    LET entity == search_by_filename(parent, name)
    IN  /\ ~is_directory(entity)
        /\ IF entity = NoEntity
           THEN /\ reply' = Err("unlink", parent, name, NoValue, "ENOENT")
                /\ UNCHANGED listing
           ELSE /\ listing' = delete_file(parent, entity)
                /\ reply' = Ok("unlink", parent, name, NoValue)
        /\ UNCHANGED <<dot_entries, global_fh, fhs_opened, ino_cache, alive,
                       cache_log, fh_log>>

\* an open that binds the handle before it tests the flags
open_binding_first(ino, trunc) ==
    /\ OpenHandle(ino)
    /\ reply' = IF trunc
                THEN Err("open", ino, "", NoValue, "EINVAL")
                ELSE [Ok("open", ino, "", NoValue) EXCEPT !.val = next_fh(global_fh).fh]
    /\ UNCHANGED <<listing, dot_entries, ino_cache, alive, cache_log>>

\* open; trunc is whether flags carry O_TRUNC
open(ino, trunc) ==
    IF trunc
    THEN /\ reply' = Err("open", ino, "", NoValue, "EINVAL")
         /\ UNCHANGED <<listing, dot_entries, global_fh, fhs_opened, ino_cache,
                        alive, cache_log, fh_log>>
    ELSE /\ /\ OpenHandle(ino)
         /\ reply' = [Ok("open", ino, "", NoValue) EXCEPT !.val = next_fh(global_fh).fh]
         /\ UNCHANGED <<listing, dot_entries, ino_cache, alive, cache_log>>

\* what read replies; store_ok is whether fs.read_contents_by_entity returns Ok
\* (its Err is unwrapped: the handler panics)
read_reply(ino, store_ok) ==
    LET dir_ino == find_parent(ino_cache, ino)
        ent == get_entity_by_parent_and_block(dir_ino, ino)
    IN  IF dir_ino = NoValue
            THEN Err("read", ino, "", NoValue, "EIO")
        ELSE IF ent = NoEntity
            THEN Err("read", ino, "", NoValue, "ENOENT")
        ELSE IF store_ok
            THEN [Ok("read", ino, "", NoValue) EXCEPT !.io = "read"]
        ELSE [Err("read", ino, "", NoValue, "PANIC") EXCEPT !.io = "read"]

read(ino, store_ok) ==
    /\ reply' = read_reply(ino, store_ok)
    /\ alive' = (reply'.err # "PANIC")
    /\ UNCHANGED <<listing, dot_entries, global_fh, fhs_opened, ino_cache,
                   cache_log, fh_log>>

\* a write that forwards to the store without testing that the entity is there
write_reply_unchecked(ino, offset, len) ==
    IF find_parent(ino_cache, ino) = NoValue
        THEN Err("write", ino, "", NoValue, "EIO")
    ELSE IF offset < 0
        THEN Err("write", ino, "", NoValue, "PANIC")
    ELSE [Ok("write", ino, "", NoValue) EXCEPT !.io = "write", !.val = len]

\* what write replies to len bytes at offset (offset.try_into().unwrap() panics
\* on a negative offset, before the store is called)
write_reply(ino, offset, len) ==
    LET dir_ino == find_parent(ino_cache, ino)
        ent == get_entity_by_parent_and_block(dir_ino, ino)
    IN  IF dir_ino = NoValue
            THEN Err("write", ino, "", NoValue, "EIO")
        ELSE IF ent = NoEntity
            THEN Err("write", ino, "", NoValue, "ENOENT")
        ELSE IF offset < 0
            THEN Err("write", ino, "", NoValue, "PANIC")
        ELSE [Ok("write", ino, "", NoValue) EXCEPT !.io = "write", !.val = len]

write(ino, offset, len) ==
    /\ reply' = write_reply(ino, offset, len)
    /\ alive' = (reply'.err # "PANIC")
    /\ UNCHANGED <<listing, dot_entries, global_fh, fhs_opened, ino_cache,
                   cache_log, fh_log>>

\* release; the inode argument is unused
release(fh) ==
    /\ reply' = Ok("release", 0, "", fh)
    /\ UNCHANGED <<listing, dot_entries, global_fh, fhs_opened, ino_cache, alive,
                   cache_log, fh_log>>

opendir(ino, root_ok) ==
    LET ent == noct_search_by_block(ino, root_ok)
    IN  IF ino = 1
        THEN /\ /\ OpenHandle(1)
             /\ reply' = [Ok("opendir", ino, "", NoValue) EXCEPT !.val = next_fh(global_fh).fh]
             /\ UNCHANGED <<listing, dot_entries, ino_cache, alive, cache_log>>
        ELSE IF ent = NoEntity \/ ~is_directory(ent)
        THEN /\ reply' = [Err("opendir", ino, "", NoValue, "ENOENT") EXCEPT !.resolver = TRUE]
             /\ UNCHANGED <<listing, dot_entries, global_fh, fhs_opened, ino_cache,
                            alive, cache_log, fh_log>>
        ELSE /\ /\ OpenHandle(ino)
             /\ reply' = [Ok("opendir", ino, "", NoValue)
                            EXCEPT !.val = next_fh(global_fh).fh, !.resolver = TRUE]
             /\ UNCHANGED <<listing, dot_entries, ino_cache, alive, cache_log>>

\* one directory entry as reply.add receives it
DirEntry(i) == [ino |-> i.start_block, kind |-> FileType(i), name |-> i.name]

\* ReplyDirectory after reply.add on each of ents in turn: the buffer takes
\* the entries that fit (cap of them); add's result is ignored
reply_add_all(ents, cap) ==
    [k \in 1..(IF Len(ents) < cap THEN Len(ents) ELSE cap) |-> DirEntry(ents[k])]

\* readdir; cap is the number of entries the kernel's buffer holds
readdir(ino, fh, cap) ==
    IF ~is_fh_allocated(fhs_opened, fh)
    THEN /\ reply' = Ok("readdir", ino, "", fh)
         /\ UNCHANGED <<listing, dot_entries, global_fh, fhs_opened, ino_cache,
                        alive, cache_log, fh_log>>
    ELSE /\ reply' = [Ok("readdir", ino, "", fh)
                        EXCEPT !.entries = reply_add_all(list_directory(ino), cap)]
         /\ fhs_opened' = free_fh(fhs_opened, fh)
         /\ UNCHANGED <<listing, dot_entries, global_fh, ino_cache, alive,
                        cache_log, fh_log>>

\* releasedir; the inode argument is unused
releasedir(fh) ==
    /\ reply' = Ok("releasedir", 0, "", fh)
    /\ UNCHANGED <<listing, dot_entries, global_fh, fhs_opened, ino_cache, alive,
                   cache_log, fh_log>>

access(ino, root_ok) ==
    LET a == noct_search_by_block(ino, root_ok)
    IN  /\ IF a = NoEntity
           THEN reply' = [Err("access", ino, "", NoValue, "ENOENT") EXCEPT !.resolver = TRUE]
           ELSE reply' = [Ok("access", ino, "", NoValue) EXCEPT !.resolver = TRUE]
        /\ UNCHANGED <<listing, dot_entries, global_fh, fhs_opened, ino_cache, alive,
                       cache_log, fh_log>>

\* create; b is the block the store allocates
create(parent, name, b) ==
    LET entity == Entity(b, name, FALSE, 0)
    IN  /\ parent \in DirBlocks
        /\ search_by_filename(parent, name) = NoEntity
        /\ b \in FreeBlocks
        /\ listing' = create_file(parent, name, b)
        /\ OpenHandle(entity.start_block)
        /\ CacheAdd(parent, entity.start_block)
        /\ reply' = [Ok("create", parent, name, NoValue)
                       EXCEPT !.attr = entity_attrs_to_fuse_attrs(entity),
                              !.val = next_fh(global_fh).fh]
        /\ UNCHANGED <<dot_entries, alive>>

\* the session state a handler that only replies leaves alone
session_state == <<listing, dot_entries, global_fh, fhs_opened, ino_cache, alive,
                   cache_log, fh_log>>

\* ------------------------------------------------------------ handlers that only reply
\* flush, fsync, fsyncdir: reply.ok() and nothing else
flush(ino) ==
    /\ reply' = Ok("flush", ino, "", NoValue)
    /\ UNCHANGED session_state

fsync(ino) ==
    /\ reply' = Ok("fsync", ino, "", NoValue)
    /\ UNCHANGED session_state

fsyncdir(ino) ==
    /\ reply' = Ok("fsyncdir", ino, "", NoValue)
    /\ UNCHANGED session_state

\* statfs: fixed statistics
statfs(ino) ==
    /\ reply' = Ok("statfs", ino, "", NoValue)
    /\ UNCHANGED session_state

\* the handlers whose body is reply.error(ENOSYS); they read none of their
\* arguments, of which the model keeps the inode (and for some the name or the
\* handle)
readlink(ino) ==
    /\ reply' = Err("readlink", ino, "", NoValue, "ENOSYS")
    /\ UNCHANGED session_state

mknod(parent, name) ==
    /\ reply' = Err("mknod", parent, name, NoValue, "ENOSYS")
    /\ UNCHANGED session_state

\* an rmdir that deletes the entry through the store, as unlink does
rmdir_deleting(parent, name) ==
    /\ listing' = delete_file(parent, search_by_filename(parent, name))
    /\ reply' = Ok("rmdir", parent, name, NoValue)
    /\ UNCHANGED <<dot_entries, global_fh, fhs_opened, ino_cache, alive,
                   cache_log, fh_log>>

rmdir(parent, name) ==
    /\ reply' = Err("rmdir", parent, name, NoValue, "ENOSYS")
    /\ UNCHANGED session_state

symlink(parent, name) ==
    /\ reply' = Err("symlink", parent, name, NoValue, "ENOSYS")
    /\ UNCHANGED session_state

rename(parent, name) ==
    /\ reply' = Err("rename", parent, name, NoValue, "ENOSYS")
    /\ UNCHANGED session_state

link(ino, newname) ==
    /\ reply' = Err("link", ino, newname, NoValue, "ENOSYS")
    /\ UNCHANGED session_state

readdirplus(ino, fh) ==
    /\ reply' = Err("readdirplus", ino, "", fh, "ENOSYS")
    /\ UNCHANGED session_state

setxattr(ino) ==
    /\ reply' = Err("setxattr", ino, "", NoValue, "ENOSYS")
    /\ UNCHANGED session_state

getlk(ino) ==
    /\ reply' = Err("getlk", ino, "", NoValue, "ENOSYS")
    /\ UNCHANGED session_state

setlk(ino) ==
    /\ reply' = Err("setlk", ino, "", NoValue, "ENOSYS")
    /\ UNCHANGED session_state

bmap(ino) ==
    /\ reply' = Err("bmap", ino, "", NoValue, "ENOSYS")
    /\ UNCHANGED session_state

ioctl(ino) ==
    /\ reply' = Err("ioctl", ino, "", NoValue, "ENOSYS")
    /\ UNCHANGED session_state

fallocate(ino) ==
    /\ reply' = Err("fallocate", ino, "", NoValue, "ENOSYS")
    /\ UNCHANGED session_state

lseek(ino) ==
    /\ reply' = Err("lseek", ino, "", NoValue, "ENOSYS")
    /\ UNCHANGED session_state

copy_file_range(ino_in) ==
    /\ reply' = Err("copy_file_range", ino_in, "", NoValue, "ENOSYS")
    /\ UNCHANGED session_state

getxattr(ino) ==
    /\ reply' = Err("getxattr", ino, "", NoValue, "ENOSYS")
    /\ UNCHANGED session_state

listxattr(ino) ==
    /\ reply' = Err("listxattr", ino, "", NoValue, "ENOSYS")
    /\ UNCHANGED session_state

removexattr(ino) ==
    /\ reply' = Err("removexattr", ino, "", NoValue, "ENOSYS")
    /\ UNCHANGED session_state

\* ------------------------------------------------------------ the session
\* the sizes setattr is asked for (NoValue: no size requested)
Sizes == {NoValue, 0, 1}
\* the offsets and lengths write is called with
Offsets == {-1, 0}
WriteLens == {1}
\* the number of entries the kernel's readdir buffer holds
BufCaps == {1, Cardinality(Blocks) + 1}
\* the handle ids the kernel passes
Fhs == 0..MaxGrowth

\* The handler has replied and returned: the session loop of fuser::mount2
\* takes the kernel's next request.  A handler that panicked ends the session.
session_next ==
    /\ alive
    /\ reply # Idle
    /\ reply' = Idle
    /\ UNCHANGED <<listing, dot_entries, global_fh, fhs_opened, ino_cache, alive,
                   cache_log, fh_log>>

\* the bound of a run: a request that records a hint or allocates a handle is
\* served while the hints recorded and the handles allocated so far leave room
\* for the n more it makes
MayGrow(n) == Len(cache_log) + global_fh + n <= MaxGrowth

\* the session loop is between two requests
Ready == alive /\ reply = Idle

\* one request at a time: the kernel's next request is dispatched to its handler
Next ==
    \/ session_next
    \/ Ready /\ MayGrow(1) /\ \E parent \in Blocks, name \in Names : lookup(parent, name)
    \/ Ready /\ \E ino \in Blocks, root_ok \in BOOLEAN : getattr(ino, root_ok)
    \/ Ready /\ \E ino \in Blocks, size \in Sizes, root_ok \in BOOLEAN : setattr(ino, size, root_ok)
    \/ Ready /\ MayGrow(1) /\ \E parent \in Blocks, name \in Names, b \in Blocks : mkdir(parent, name, b)
    \/ Ready /\ \E parent \in Blocks, name \in Names : unlink(parent, name)
    \/ Ready /\ MayGrow(1) /\ \E ino \in Blocks, trunc \in BOOLEAN : open(ino, trunc)
    \/ Ready /\ \E ino \in Blocks, store_ok \in BOOLEAN : read(ino, store_ok)
    \/ Ready /\ \E ino \in Blocks, offset \in Offsets, len \in WriteLens : write(ino, offset, len)
    \/ Ready /\ \E fh \in Fhs : release(fh)
    \/ Ready /\ MayGrow(1) /\ \E ino \in Blocks, root_ok \in BOOLEAN : opendir(ino, root_ok)
    \/ Ready /\ \E ino \in Blocks, fh \in Fhs, cap \in BufCaps : readdir(ino, fh, cap)
    \/ Ready /\ \E fh \in Fhs : releasedir(fh)
    \/ Ready /\ \E ino \in Blocks, root_ok \in BOOLEAN : access(ino, root_ok)
    \/ Ready /\ MayGrow(2) /\ \E parent \in Blocks, name \in Names, b \in Blocks : create(parent, name, b)
    \/ Ready /\ \E ino \in Blocks : flush(ino)
    \/ Ready /\ \E ino \in Blocks : fsync(ino)
    \/ Ready /\ \E ino \in Blocks : fsyncdir(ino)
    \/ Ready /\ \E ino \in Blocks : statfs(ino)
    \/ Ready /\ \E ino \in Blocks : readlink(ino)
    \/ Ready /\ \E parent \in Blocks, name \in Names : mknod(parent, name)
    \/ Ready /\ \E parent \in Blocks, name \in Names : rmdir(parent, name)
    \/ Ready /\ \E parent \in Blocks, name \in Names : symlink(parent, name)
    \/ Ready /\ \E parent \in Blocks, name \in Names : rename(parent, name)
    \/ Ready /\ \E ino \in Blocks, newname \in Names : link(ino, newname)
    \/ Ready /\ \E ino \in Blocks, fh \in Fhs : readdirplus(ino, fh)
    \/ Ready /\ \E ino \in Blocks : setxattr(ino)
    \/ Ready /\ \E ino \in Blocks : getlk(ino)
    \/ Ready /\ \E ino \in Blocks : setlk(ino)
    \/ Ready /\ \E ino \in Blocks : bmap(ino)
    \/ Ready /\ \E ino \in Blocks : ioctl(ino)
    \/ Ready /\ \E ino \in Blocks : fallocate(ino)
    \/ Ready /\ \E ino \in Blocks : lseek(ino)
    \/ Ready /\ \E ino_in \in Blocks : copy_file_range(ino_in)
    \/ Ready /\ \E ino \in Blocks : getxattr(ino)
    \/ Ready /\ \E ino \in Blocks : listxattr(ino)
    \/ Ready /\ \E ino \in Blocks : removexattr(ino)

Spec == Init /\ [][Next]_vars

\* ------------------------------------------------------------ the cache alone
\* INOCache driven directly, as a unit test drives it: record calls add,
\* resolve calls find_parent.  Each of the first MixLen hints is either one of
\* MixHints (the same child under two parents) or a hint for a child never
\* recorded before; every later hint is for a child never recorded before.
MixHints == {CacheEntry(2, 1), CacheEntry(2, 2)}

FreshHint == CacheEntry(4 + Len(cache_log), RootBlock)

\* the children resolve is asked about
Probes == {2, 4, 4 + MixLen}

record(hint) ==
    /\ CacheAdd(hint.parent_ino, hint.ino)
    /\ reply' = [Ok("add", hint.ino, "", NoValue) EXCEPT !.val = hint.parent_ino]
    /\ UNCHANGED <<listing, dot_entries, global_fh, fhs_opened, alive, fh_log>>

resolve(ino) ==
    /\ reply' = [Ok("find_parent", ino, "", NoValue) EXCEPT !.val = find_parent(ino_cache, ino)]
    /\ UNCHANGED <<listing, dot_entries, global_fh, fhs_opened, ino_cache, alive,
                   cache_log, fh_log>>

\* the session state as constructed, on an empty image
InitCache ==
    /\ dot_entries = FALSE
    /\ listing = EmptyImage
    /\ global_fh = 0
    /\ fhs_opened = <<>>
    /\ ino_cache = <<>>
    /\ reply = Idle
    /\ alive = TRUE
    /\ cache_log = <<>>
    /\ fh_log = <<>>

NextCache ==
    \/ Len(cache_log) < MixLen /\ \E hint \in MixHints : record(hint)
    \/ Len(cache_log) < MaxAdds /\ record(FreshHint)
    \/ \E ino \in Probes : resolve(ino)

SpecCache == InitCache /\ [][NextCache]_vars

\* ------------------------------------------------------------ the handle table alone
\* The handle table driven directly: bind is next_fh followed by allocate_fh,
\* unbind is free_fh, of any handle id, bound or not.
bind(ino) ==
    /\ OpenHandle(ino)
    /\ reply' = [Ok("allocate_fh", ino, "", NoValue) EXCEPT !.val = next_fh(global_fh).fh]
    /\ UNCHANGED <<listing, dot_entries, ino_cache, alive, cache_log>>

unbind(fh) ==
    /\ fhs_opened' = free_fh(fhs_opened, fh)
    /\ reply' = Ok("free_fh", 0, "", fh)
    /\ UNCHANGED <<listing, dot_entries, global_fh, ino_cache, alive, cache_log, fh_log>>

NextHandles ==
    \/ global_fh < MaxBinds /\ \E ino \in Blocks : bind(ino)
    \/ \E fh \in 0..MaxBinds : unbind(fh)

SpecHandles == InitCache /\ [][NextHandles]_vars

\* ------------------------------------------------------------ the tree
\* the directories reachable from the set S of directories in at most n steps
RECURSIVE ReachableDirs(_, _)
ReachableDirs(S, n) ==
    IF n = 0 THEN S
    ELSE ReachableDirs(S \cup {c[2].start_block :
                                 c \in {x \in Listed : x[1] \in S /\ x[2].is_dir}}, n - 1)

\* the entities of the tree reachable from the root
TreeEntities == {c[2] : c \in {x \in Listed : x[1] \in ReachableDirs({RootBlock}, Cardinality(Blocks))}}

\* the identifiers a caller may ask the resolver for: every block and one
\* identifier no entity has
Targets == Blocks \cup {Cardinality(Blocks) + 1}

\* ------------------------------------------------------------ C1
\* C1: lookup(parent=1, name) of a present name, immediately followed by a read
\* of the inode it replied, succeeds; and a read or write of an inode the cache
\* holds no parent for replies EIO, makes no store read/write and does not run
\* the tree resolver.
C1_LookupThenReadSucceeds ==
    /\ (reply.op = "lookup" /\ reply.err = "OK" /\ reply.ino = 1)
         => \A store_ok \in BOOLEAN : read_reply(reply.attr.ino, store_ok).err = "OK"
    /\ (reply.op \in {"read", "write"} /\ find_parent(ino_cache, reply.ino) = NoValue)
         => (reply.err = "EIO" /\ reply.io = "none" /\ ~reply.resolver)

\* ------------------------------------------------------------ C2
\* C2: the tree resolver is complete: for every entity reachable from the root,
\* at any depth and whatever precedes it among its siblings,
\* find_by_identifier(its identifier) returns that entity.
C2_ResolverComplete ==
    \A e \in TreeEntities : noct_search_by_block(e.start_block, TRUE) = e

\* ------------------------------------------------------------ C3
\* C3: the tree resolver is sound: for a target other than 1 it returns none
\* when no entity of the tree has that identifier, and an entity it returns
\* has the target as its identifier.
C3_ResolverSound ==
    \A target \in Targets \ {1} :
        LET found == noct_search_by_block(target, TRUE)
        IN  /\ (\A e \in TreeEntities : e.start_block # target) => found = NoEntity
            /\ found # NoEntity => found.start_block = target

\* ------------------------------------------------------------ C4
\* the children of the hints recorded so far are pairwise distinct
DistinctChildren ==
    \A i, j \in 1..Len(cache_log) : cache_log[i].ino = cache_log[j].ino => i = j

\* the i-th hint recorded still resolves to its parent
Resolves(i) == find_parent(ino_cache, cache_log[i].ino) = cache_log[i].parent_ino

\* C4: from an empty cache, after 256 record calls for distinct children every
\* one still resolves; the 257th distinct record evicts the 1st (it no longer
\* resolves) and no other.
C4_Evicts257th ==
    /\ (Len(cache_log) = 256 /\ DistinctChildren) => \A i \in 1..256 : Resolves(i)
    /\ (Len(cache_log) = 257 /\ DistinctChildren)
         => /\ find_parent(ino_cache, cache_log[1].ino) = NoValue
            /\ \A i \in 2..257 : Resolves(i)

\* ------------------------------------------------------------ C5
\* the number of hints evicted so far, were eviction first-in first-out
Evicted == Len(cache_log) - Len(ino_cache)

\* C5: the cache holds at most 256 entries, and they are the most recently
\* recorded hints in the order they were recorded.
C5_AtMost256Newest ==
    /\ Len(ino_cache) <= 256
    /\ Evicted >= 0
    /\ ino_cache = SubSeq(cache_log, Evicted + 1, Len(cache_log))

\* ------------------------------------------------------------ C6
\* the positions in the history of the hints for child that are not evicted
LiveHints(child) == {i \in Evicted + 1..Len(cache_log) : cache_log[i].ino = child}

\* the parent of the earliest recorded hint for child that is not evicted
EarliestLiveParent(child) ==
    IF LiveHints(child) = {} THEN NoValue
    ELSE cache_log[CHOOSE i \in LiveHints(child) : \A j \in LiveHints(child) : i <= j].parent_ino

ResolveIsEarliestLive ==
    /\ \A child \in Probes : find_parent(ino_cache, child) = EarliestLiveParent(child)
    /\ \A child \in Probes :
         find_parent(ino_cache, child) = NoValue
           <=> ~\E k \in 1..Len(ino_cache) : ino_cache[k].ino = child
    /\ reply.op = "find_parent" => reply.val = EarliestLiveParent(reply.ino)

\* C6: resolve(child) returns the parent of the earliest recorded entry for
\* child that is not evicted, also when child was recorded under several
\* parents; it returns none iff the cache holds no entry for child; and a
\* resolve never changes the cache.
C6_ResolveFirstMatch ==
    /\ []ResolveIsEarliestLive
    /\ [][reply'.op = "find_parent" => ino_cache' = ino_cache]_vars

\* a resolve has answered for a child that the cache holds under two parents,
\* after the oldest hint was evicted
C6_Witness ==
    /\ reply.op = "find_parent"
    /\ reply.val # NoValue
    /\ Evicted > 0
    /\ \E i, j \in 1..Len(ino_cache) :
         /\ i < j
         /\ ino_cache[i].ino = reply.ino
         /\ ino_cache[j].ino = reply.ino
         /\ ino_cache[i].parent_ino # ino_cache[j].parent_ino

\* ------------------------------------------------------------ C7
\* the handle ids bound in the table
BoundFhs == {fhs_opened[i][1] : i \in 1..Len(fhs_opened)}

\* C7: the handle ids replied by open, opendir and create are 0, 1, 2, ... in
\* that order: each is greater than every id replied before, and an id that
\* was freed is never replied again.
C7_HandleIdsIncrease ==
    /\ \A i \in 1..Len(fh_log) : fh_log[i] = i - 1
    /\ (reply.op \in {"open", "opendir", "create"} /\ reply.err = "OK")
         => (fh_log # <<>> /\ reply.val = fh_log[Len(fh_log)])

\* create has replied a handle id after an earlier id was freed by a readdir
C7_Witness ==
    /\ reply.op = "create"
    /\ reply.err = "OK"
    /\ Len(fh_log) >= 2
    /\ \E i \in 1..Len(fh_log) : fh_log[i] \notin BoundFhs

\* ------------------------------------------------------------ C8
\* C8: release(h) removes the binding of h and leaves every other binding and
\* the handle counter unchanged; release of an id that is not bound leaves the
\* whole table unchanged; releasing twice is releasing once.
C8_ReleaseIdempotent ==
    [][reply'.op = "free_fh" =>
          /\ ~is_fh_allocated(fhs_opened', reply'.fh)
          /\ \A g \in (0..MaxBinds) \ {reply'.fh} :
                get_ino(fhs_opened', g) = get_ino(fhs_opened, g)
          /\ global_fh' = global_fh
          /\ ~is_fh_allocated(fhs_opened, reply'.fh) => fhs_opened' = fhs_opened
          /\ free_fh(fhs_opened', reply'.fh) = fhs_opened']_vars

\* a bound handle was released while another stayed bound
C8_Witness ==
    /\ reply.op = "free_fh"
    /\ reply.fh \in {fh_log[i] : i \in 1..Len(fh_log)}
    /\ reply.fh \notin BoundFhs
    /\ BoundFhs # {}

\* ------------------------------------------------------------ C9
\* C9: a readdir on a bound handle replies its listing and releases the
\* handle; a released handle id is never bound again, and a readdir on an
\* unbound handle replies an empty listing (not an error) and changes nothing.
C9_ReaddirSingleShot ==
    /\ [][reply'.op = "readdir" =>
            IF is_fh_allocated(fhs_opened, reply'.fh)
            THEN /\ reply'.err = "OK"
                 /\ ~is_fh_allocated(fhs_opened', reply'.fh)
            ELSE /\ reply'.err = "OK"
                 /\ reply'.entries = <<>>
                 /\ UNCHANGED <<listing, dot_entries, global_fh, fhs_opened,
                                ino_cache, alive, cache_log, fh_log>>]_vars
    /\ [][\A h \in Fhs :
            (h < global_fh /\ ~is_fh_allocated(fhs_opened, h))
               => ~is_fh_allocated(fhs_opened', h)]_vars

\* a readdir on an already consumed handle of a directory that has entries
\* replied an empty listing
C9_Witness ==
    /\ reply.op = "readdir"
    /\ reply.err = "OK"
    /\ reply.entries = <<>>
    /\ reply.fh < global_fh
    /\ \E i \in 1..Len(list_directory(reply.ino)) :
          list_directory(reply.ino)[i].name \notin DotNames

\* ------------------------------------------------------------ C10
\* the children of directory ino as readdir is to reply them: one entry per
\* child, "." and ".." left out
ChildEntries(ino) ==
    LET kids == SelectSeq(list_directory(ino), LAMBDA e : e.name \notin DotNames)
    IN  [k \in 1..Len(kids) |-> DirEntry(kids[k])]

\* C10: the first readdir on a bound handle replies the full child list of the
\* directory, one (identifier, kind, name) entry per child, without the
\* entries named "." and "..".
C10_ReaddirFullListing ==
    [][(reply'.op = "readdir" /\ is_fh_allocated(fhs_opened, reply'.fh))
          => reply'.entries = ChildEntries(reply'.ino)]_vars

\* ------------------------------------------------------------ C11
\* the listing an opendir(ino) followed by a readdir(ino) replies in this state,
\* the kernel's buffer holding cap entries
NextListing(ino, cap) == reply_add_all(list_directory(ino), cap)

\* C11: after create(parent=1, name) succeeds, the next opendir(1)+readdir(1)
\* listing has an entry with that name whose identifier is the inode create
\* replied; after unlink(1, name) succeeds, the next opendir(1)+readdir(1)
\* listing has no entry with that name.
C11_CreateThenListed ==
    /\ (reply.op = "create" /\ reply.err = "OK" /\ reply.ino = 1)
         => \A cap \in BufCaps :
               \E k \in 1..Len(NextListing(1, cap)) :
                   /\ NextListing(1, cap)[k].name = reply.name
                   /\ NextListing(1, cap)[k].ino = reply.attr.ino
    /\ (reply.op = "unlink" /\ reply.err = "OK" /\ reply.ino = 1)
         => \A cap \in BufCaps :
               \A k \in 1..Len(NextListing(1, cap)) :
                   NextListing(1, cap)[k].name # reply.name

\* ------------------------------------------------------------ C12
\* C12: a setattr that requests a size, on an inode the resolver finds but the
\* cache holds no parent for, replies an error: it does not reply success with
\* attributes that carry the requested size.
C12_SetattrNeedsParentHint ==
    (/\ reply.op = "setattr"
     /\ reply.val # NoValue
     /\ reply.err # "ENOENT"
     /\ find_parent(ino_cache, reply.ino) = NoValue)
        => reply.err # "OK"

\* ------------------------------------------------------------ C13
\* C13: setattr never grows a file: a setattr step leaves the size the store
\* records for every entity no larger than it was, so a requested size above
\* the current size is not written to the header.
C13_SetattrNeverGrows ==
    [][reply'.op = "setattr" =>
          \A d \in Blocks :
              /\ Len(listing'[d]) = Len(listing[d])
              /\ \A i \in 1..Len(listing[d]) : listing'[d][i].size <= listing[d][i].size]_vars

\* ------------------------------------------------------------ C14
\* C14: open with the truncate flag replies EINVAL and neither advances the
\* handle counter nor adds a binding; every other open replies the value of
\* the counter, an id that was never replied and is not bound, advances the
\* counter by one and adds the one binding of that id to the inode.
C14_OpenRejectsTrunc ==
    [][\A ino \in Blocks, trunc \in BOOLEAN :
          open(ino, trunc) =>
              IF trunc
              THEN /\ reply'.err = "EINVAL"
                   /\ global_fh' = global_fh
                   /\ fhs_opened' = fhs_opened
              ELSE /\ reply'.err = "OK"
                   /\ reply'.val = global_fh
                   /\ reply'.val \notin BoundFhs
                   /\ \A i \in 1..Len(fh_log) : fh_log[i] # reply'.val
                   /\ global_fh' = global_fh + 1
                   /\ fhs_opened' = Append(fhs_opened, <<reply'.val, ino>>)]_vars

\* an open with the truncate flag was rejected while a handle was bound
C14_Witness ==
    /\ reply.op = "open"
    /\ reply.err = "EINVAL"
    /\ global_fh > 0
    /\ BoundFhs # {}

\* ------------------------------------------------------------ C15
\* inode ino is the root or a directory entity of the tree
DenotesDirectory(ino) ==
    \/ ino = 1
    \/ \E e \in TreeEntities : e.start_block = ino /\ is_directory(e)

\* C15: the store answering, opendir(inode) allocates and binds a handle
\* exactly when inode is the root or a directory entity of the tree; for an
\* inode that is not in the tree or is a regular file it replies ENOENT and
\* allocates nothing.
C15_OpendirOnlyDirectories ==
    [][\A ino \in Blocks :
          opendir(ino, TRUE) =>
              IF DenotesDirectory(ino)
              THEN /\ reply'.err = "OK"
                   /\ global_fh' = global_fh + 1
                   /\ fhs_opened' = Append(fhs_opened, <<reply'.val, ino>>)
              ELSE /\ reply'.err = "ENOENT"
                   /\ global_fh' = global_fh
                   /\ fhs_opened' = fhs_opened]_vars

\* ------------------------------------------------------------ C16
\* C16: a release removes the handle from the handle table, and a readdir on a
\* bound handle removes it when the listing is replied; so once every handle
\* opened has been released or listed the table is empty.
C16_HandleRemovedOnRelease ==
    /\ [][reply'.op = "release" => ~is_fh_allocated(fhs_opened', reply'.fh)]_vars
    /\ [][reply'.op = "readdir" => ~is_fh_allocated(fhs_opened', reply'.fh)]_vars

\* ------------------------------------------------------------ C17
\* the error codes a handler replies
ErrorCodes == {"ENOENT", "EIO", "EINVAL", "ENOSYS"}

\* C17: no failure of one operation is fatal: every operation, whatever its
\* input, ends with one reply, a value or one error code, and the session goes
\* on to serve the next operation.
C17_NoFatalFailure ==
    /\ alive
    /\ reply.err \in {"OK"} \cup ErrorCodes

\* ------------------------------------------------------------ C18
\* inode ino is the root or an entity of the tree
InTree(ino) == ino = 1 \/ \E e \in TreeEntities : e.start_block = ino

\* C18: the store answering, access(inode) replies success iff inode is the
\* root or an entity of the tree reachable from the root, and ENOENT
\* otherwise; access never changes the session state.
C18_AccessIffInTree ==
    [][\A ino \in Blocks :
          access(ino, TRUE) =>
              /\ reply'.err = (IF InTree(ino) THEN "OK" ELSE "ENOENT")
              /\ UNCHANGED session_state]_vars

\* ------------------------------------------------------------ C19
\* the operations that are unimplemented by design
Unimplemented ==
    {"symlink", "link", "rename", "rmdir", "getlk", "setlk", "setxattr", "getxattr",
     "listxattr", "removexattr", "bmap", "ioctl", "fallocate", "lseek",
     "copy_file_range", "readlink", "mknod", "readdirplus"}

\* C19: every unimplemented operation replies ENOSYS for every input and
\* leaves the cache, the handle table, the handle counter and the store
\* unchanged.
C19_UnimplementedReplyENOSYS ==
    [][reply'.op \in Unimplemented =>
          /\ reply'.err = "ENOSYS"
          /\ ino_cache' = ino_cache
          /\ fhs_opened' = fhs_opened
          /\ global_fh' = global_fh
          /\ listing' = listing
          /\ alive']_vars

\* rmdir of a directory that exists was refused while a hint is cached and a
\* handle is bound
C19_Witness ==
    /\ reply.op = "rmdir"
    /\ reply.err = "ENOSYS"
    /\ is_directory(search_by_filename(reply.ino, reply.name))
    /\ ino_cache # <<>>
    /\ fhs_opened # <<>>

\* ------------------------------------------------------------ C20
\* the operations that record a hint when they succeed
Recording == {"lookup", "mkdir", "create"}

\* C20: a successful lookup, mkdir or create adds the entry (parent, child) at
\* the end of the cache, evicting at most the oldest entry; no other operation
\* changes the cache, so the entry of a child that unlink deleted stays and
\* still resolves.
C20_CacheGainsOnlyOnResolution ==
    [][IF reply'.op \in Recording /\ reply'.err = "OK"
       THEN LET hint == CacheEntry(reply'.attr.ino, reply'.ino)
            IN  \/ ino_cache' = Append(ino_cache, hint)
                \/ /\ ino_cache # <<>>
                   /\ ino_cache' = Append(Tail(ino_cache), hint)
       ELSE ino_cache' = ino_cache]_vars

\* unlink has deleted a child whose hint the cache still resolves
C20_Witness ==
    /\ reply.op = "unlink"
    /\ reply.err = "OK"
    /\ \E child \in Blocks \ UsedBlocks : find_parent(ino_cache, child) = reply.ino

\* ------------------------------------------------------------ C21
\* every bound handle id is below the counter and is bound once, so the
\* bindings of an id all name the inode get_ino returns
HandleTableSound ==
    /\ \A i \in 1..Len(fhs_opened) : fhs_opened[i][1] < global_fh
    /\ \A i, j \in 1..Len(fhs_opened) : fhs_opened[i][1] = fhs_opened[j][1] => i = j
    /\ \A i \in 1..Len(fhs_opened) : get_ino(fhs_opened, fhs_opened[i][1]) = fhs_opened[i][2]

\* C21: in every reachable state every bound handle id is strictly less than
\* the handle counter and no handle id is in more than one binding, so the
\* inode of a bound handle is uniquely determined; and the counter never
\* decreases.
C21_HandleTableInvariant ==
    /\ []HandleTableSound
    /\ [][global_fh' >= global_fh]_vars

\* two handles are bound, to different inodes, after an earlier one was freed
C21_Witness ==
    /\ Len(fhs_opened) >= 2
    /\ \E i, j \in 1..Len(fhs_opened) : fhs_opened[i][2] # fhs_opened[j][2]
    /\ \E h \in 0..(global_fh - 1) : ~is_fh_allocated(fhs_opened, h)

\* ------------------------------------------------------------ C22
\* C22: an operation that replies an error code leaves the cache, the handle
\* table and the handle counter exactly as they were before the call.
C22_ErrorLeavesSessionState ==
    [][reply'.err \in ErrorCodes =>
          /\ ino_cache' = ino_cache
          /\ fhs_opened' = fhs_opened
          /\ global_fh' = global_fh]_vars

\* a read has replied ENOENT for an entity that vanished, while the cache
\* holds its hint and a handle is bound
C22_Witness ==
    /\ reply.op = "read"
    /\ reply.err = "ENOENT"
    /\ find_parent(ino_cache, reply.ino) # NoValue
    /\ fhs_opened # <<>>

\* ------------------------------------------------------------ C23
\* directory dir lists an entity with identifier ino
PresentIn(dir, ino) ==
    \E i \in 1..Len(list_directory(dir)) :
        /\ list_directory(dir)[i].start_block = ino
        /\ list_directory(dir)[i].name \notin DotNames

\* C23: a read or write of an inode whose cached parent (the first hint
\* recorded for it) no longer lists it replies ENOENT, not EIO, and makes no
\* store read or write.
C23_VanishedEntityENOENT ==
    (/\ reply.op \in {"read", "write"}
     /\ find_parent(ino_cache, reply.ino) # NoValue
     /\ ~PresentIn(find_parent(ino_cache, reply.ino), reply.ino))
        => (reply.err = "ENOENT" /\ reply.io = "none")

\* a write has replied ENOENT through a stale first hint, while a later hint
\* names the directory that does list the inode
C23_Witness ==
    /\ reply.op = "write"
    /\ reply.err = "ENOENT"
    /\ \E k \in 1..Len(ino_cache) :
          /\ ino_cache[k].ino = reply.ino
          /\ PresentIn(ino_cache[k].parent_ino, reply.ino)

\* ------------------------------------------------------------ C24
\* the tree is finite and acyclic with unique identifiers: no two listed
\* entities share an identifier and none has the root's
UniqueIdentifiers ==
    /\ \A x, y \in Listed : x[2].start_block = y[2].start_block => x = y
    /\ \A x \in Listed : x[2].start_block # RootBlock

\* the number of invocations a search of the tree may take: one for each
\* directory and one more
CallBound == Cardinality(DirBlocks) + 1

\* the operations that run the resolver
Resolving == {"getattr", "setattr", "opendir", "access"}

\* C24: on a finite acyclic tree with unique identifiers, whatever the target
\* getattr, setattr, opendir or access was called with, present or absent, the
\* resolver returns its result after a bounded number of recursive
\* invocations, and the operation replies.
C24_ResolverTerminates ==
    (reply.op \in Resolving /\ UniqueIdentifiers) =>
        /\ \A root_ok \in BOOLEAN :
              LET bound == CallBound
                  r == noct_search_by_block_counted(reply.ino, root_ok, bound)
              IN  /\ r.done
                  /\ r.calls <= bound
                  /\ r.found = noct_search_by_block(reply.ino, root_ok)
        /\ alive
        /\ reply.err \in {"OK", "ENOENT"}

\* getattr has replied after a search that recursed, for a target that no
\* entity has
C24_Witness ==
    /\ reply.op = "getattr"
    /\ reply.resolver
    /\ UniqueIdentifiers
    /\ reply.ino \notin UsedBlocks
    /\ noct_search_by_block_counted(reply.ino, TRUE, CallBound).calls > 1

====
